---- MODULE Spec2Model ----
(***************************************************************************)
(* A model of the CHIP-8 interpreter of src/src/lib.rs: the Chip8 struct,  *)
(* its constructor, load_rom, fetch, tick, keypress, tick_timers and       *)
(* execute.  The machine is one record `chip8`; every public method is an  *)
(* action.  A Rust panic (index out of bounds, unimplemented!, arithmetic  *)
(* overflow in a build with overflow checks) ends the run: `panicked`      *)
(* becomes TRUE and the record keeps whatever the method had already       *)
(* written.                                                                *)
(***************************************************************************)
EXTENDS Integers, Sequences, FiniteSets, TLC

VARIABLES
    chip8,      \* the Chip8 struct (lib.rs 43-55)
    panicked,   \* TRUE once a method has panicked
    checked,    \* TRUE: the build has overflow checks (debug profile)
    loaded,     \* TRUE once load_rom has returned Ok
    pre,        \* history: the struct as it was before the last method call
    last,       \* history: the last method call and its inputs
    calls,      \* history: the addresses of the CALLs not yet returned from
    since,      \* history: per timer, the value last stored into it by
                \* LD DT / LD ST and the calls of tick_timers since then
    saved,      \* history: x, index and the registers at the last
                \* LD [I], Vx that returned
    driver      \* Chip8::run: its position in the game loop, its argument
                \* ticks_per_frame and the events waiting in the event pump

machine == <<chip8, panicked, checked, loaded, pre, last, calls, since, saved>>

vars == <<chip8, panicked, checked, loaded, pre, last, calls, since, saved,
          driver>>

----------------------------------------------------------------------------
(* Program constants *)

START_ADDRESS == 512
FONTSET_SIZE == 80
FONTSET_START_ADDRESS == 80
CHIP8_WIDTH == 64
CHIP8_HEIGHT == 32
MEMORY_SIZE == 4096
NUM_REGISTERS == 16
STACK_SIZE == 16
NUM_KEYS == 16
U8 == 256
U16 == 65536

FONTSET ==
    << 240, 144, 144, 144, 240,
        32,  96,  32,  32, 112,
       240,  16, 240, 128, 240,
       240,  16, 240,  16, 240,
       144, 144, 240,  16,  16,
       240, 128, 240,  16, 240,
       240, 128, 240, 144, 240,
       240,  16,  32,  64,  64,
       240, 144, 240, 144, 240,
       240, 144, 240,  16, 240,
       240, 144, 240, 144, 144,
       224, 144, 224, 144, 224,
       240, 128, 128, 128, 240,
       224, 144, 144, 144, 224,
       240, 128, 240, 128, 240,
       240, 128, 240, 128, 128 >>

----------------------------------------------------------------------------
(* Bit arithmetic on unsigned integers *)

Bit(v, i) == (v \div (2 ^ i)) % 2

RECURSIVE Bitwise(_, _, _, _)
Bitwise(kind, a, b, i) ==
    IF i = 8 THEN 0
    ELSE LET x == Bit(a, i)
             y == Bit(b, i)
             r == CASE kind = "or"  -> IF x + y > 0 THEN 1 ELSE 0
                    [] kind = "and" -> x * y
                    [] kind = "xor" -> (x + y) % 2
         IN  r * (2 ^ i) + Bitwise(kind, a, b, i + 1)

BitOr(a, b)  == Bitwise("or", a, b, 0)
BitAnd(a, b) == Bitwise("and", a, b, 0)
BitXor(a, b) == Bitwise("xor", a, b, 0)

\* the four nibbles of an instruction word (lib.rs 195-200)
nibbles(opcode) ==
    << (opcode \div 4096) % 16, (opcode \div 256) % 16,
       (opcode \div 16) % 16, opcode % 16 >>

Addr(opcode) == opcode % 4096
Byte(opcode) == opcode % 256

\* outcome of a method: the struct afterwards, and whether it returned
Done(m)  == [m |-> m, ok |-> TRUE]
Panic(m) == [m |-> m, ok |-> FALSE]

----------------------------------------------------------------------------
(* Chip8::new *)

\* variant: the font table is copied to the start of memory
new_font_at_zero ==
    [ pc        |-> START_ADDRESS,
      memory    |-> [a \in 0 .. MEMORY_SIZE - 1 |->
                        IF a < FONTSET_SIZE THEN FONTSET[a + 1] ELSE 0],
      video     |-> [p \in 0 .. CHIP8_WIDTH * CHIP8_HEIGHT - 1 |-> FALSE],
      registers |-> [r \in 0 .. NUM_REGISTERS - 1 |-> 0],
      index     |-> 0,
      sp        |-> 0,
      stack     |-> [s \in 0 .. STACK_SIZE - 1 |-> 0],
      keypad    |-> [k \in 0 .. NUM_KEYS - 1 |-> FALSE],
      dtimer    |-> 0,
      stimer    |-> 0,
      opcode    |-> 0 ]

new ==
    [ pc        |-> START_ADDRESS,
      memory    |-> [a \in 0 .. MEMORY_SIZE - 1 |->
                        IF a >= FONTSET_START_ADDRESS
                           /\ a < FONTSET_START_ADDRESS + FONTSET_SIZE
                        THEN FONTSET[a - FONTSET_START_ADDRESS + 1]
                        ELSE 0],
      video     |-> [p \in 0 .. CHIP8_WIDTH * CHIP8_HEIGHT - 1 |-> FALSE],
      registers |-> [r \in 0 .. NUM_REGISTERS - 1 |-> 0],
      index     |-> 0,
      sp        |-> 0,
      stack     |-> [s \in 0 .. STACK_SIZE - 1 |-> 0],
      keypad    |-> [k \in 0 .. NUM_KEYS - 1 |-> FALSE],
      dtimer    |-> 0,
      stimer    |-> 0,
      opcode    |-> 0 ]

(* Chip8::load_rom: rom_data is the content of the file; ok is FALSE when   *)
(* Err is returned.                                                        *)
\* variant: a file that is too long is copied as far as it fits before the
\* error is returned
load_rom_fills(m, rom_data) ==
    LET end == START_ADDRESS + Len(rom_data)
    IN  [m |-> [m EXCEPT !.memory =
                    [a \in 0 .. MEMORY_SIZE - 1 |->
                        IF a >= START_ADDRESS /\ a < end
                        THEN rom_data[a - START_ADDRESS + 1]
                        ELSE m.memory[a]]],
         ok |-> end <= MEMORY_SIZE]

\* variant: the copy starts one byte late
load_rom_late(m, rom_data) ==
    LET end == START_ADDRESS + Len(rom_data)
    IN  IF end > MEMORY_SIZE
        THEN [m |-> m, ok |-> FALSE]
        ELSE [m |-> [m EXCEPT !.memory =
                        [a \in 0 .. MEMORY_SIZE - 1 |->
                            IF a >= START_ADDRESS + 1 /\ a < end
                            THEN rom_data[a - START_ADDRESS]
                            ELSE m.memory[a]]],
              ok |-> TRUE]

load_rom(m, rom_data) ==
    LET end == START_ADDRESS + Len(rom_data)
    IN  IF end > MEMORY_SIZE
        THEN [m |-> m, ok |-> FALSE]
        ELSE [m |-> [m EXCEPT !.memory =
                        [a \in 0 .. MEMORY_SIZE - 1 |->
                            IF a >= START_ADDRESS /\ a < end
                            THEN rom_data[a - START_ADDRESS + 1]
                            ELSE m.memory[a]]],
              ok |-> TRUE]

(* Chip8::fetch: the word read, and the struct with pc advanced.  An index *)
(* past the end of memory panics before pc is written.                     *)
fetch(m) ==
    IF m.pc >= MEMORY_SIZE THEN [m |-> m, ok |-> FALSE, op |-> 0]
    ELSE IF m.pc + 1 >= MEMORY_SIZE THEN [m |-> m, ok |-> FALSE, op |-> 0]
    ELSE [m  |-> [m EXCEPT !.pc = m.pc + 2],
          ok |-> TRUE,
          op |-> m.memory[m.pc] * 256 + m.memory[m.pc + 1]]

(* Chip8::keypress *)
keypress(m, idx, pressed) ==
    IF idx >= NUM_KEYS THEN Panic(m)
    ELSE Done([m EXCEPT !.keypad[idx] = pressed])

\* variant: the sound timer is decremented inside the test of the delay timer
tick_timers_nested(m) ==
    [m EXCEPT !.dtimer = IF m.dtimer > 0 THEN m.dtimer - 1 ELSE m.dtimer,
              !.stimer = IF m.dtimer > 0 /\ m.stimer > 0 THEN m.stimer - 1
                                                         ELSE m.stimer]

(* Chip8::tick_timers *)
tick_timers(m) ==
    [m EXCEPT !.dtimer = IF m.dtimer > 0 THEN m.dtimer - 1 ELSE m.dtimer,
              !.stimer = IF m.stimer > 0 THEN m.stimer - 1 ELSE m.stimer]

----------------------------------------------------------------------------
(* Chip8::execute, one operator per match arm *)

SetReg(m, r, v) == [m EXCEPT !.registers[r] = v]

\* `self.pc += 2` on a u16: overflow panics in a checked build, wraps otherwise
Skip(m, chk) ==
    IF m.pc + 2 >= U16
    THEN IF chk THEN Panic(m) ELSE Done([m EXCEPT !.pc = (m.pc + 2) % U16])
    ELSE Done([m EXCEPT !.pc = m.pc + 2])

SkipIf(m, cond, chk) == IF cond THEN Skip(m, chk) ELSE Done(m)

exec_NOP(m) == Done(m)

exec_CLS(m) ==
    Done([m EXCEPT !.video = [p \in 0 .. CHIP8_WIDTH * CHIP8_HEIGHT - 1 |-> FALSE]])

\* `self.sp -= 1` on a u8, then the indexed read of the stack
exec_RET(m, chk) ==
    IF m.sp = 0
    THEN IF chk THEN Panic(m) ELSE Panic([m EXCEPT !.sp = U8 - 1])
    ELSE IF m.sp - 1 >= STACK_SIZE THEN Panic([m EXCEPT !.sp = m.sp - 1])
    ELSE Done([m EXCEPT !.sp = m.sp - 1, !.pc = m.stack[m.sp - 1]])

exec_JP(m, opcode) == Done([m EXCEPT !.pc = Addr(opcode)])

\* variant: a full stack is clamped instead of panicking
exec_CALL_clamp(m, opcode) ==
    IF m.sp >= STACK_SIZE
    THEN Done([m EXCEPT !.stack[STACK_SIZE - 1] = m.pc, !.pc = Addr(opcode)])
    ELSE Done([m EXCEPT !.stack[m.sp] = m.pc,
                        !.sp = m.sp + 1,
                        !.pc = Addr(opcode)])

\* variant: the address of the CALL itself is pushed
exec_CALL_pushes_own(m, opcode) ==
    IF m.sp >= STACK_SIZE THEN Panic(m)
    ELSE Done([m EXCEPT !.stack[m.sp] = m.pc - 2,
                        !.sp = m.sp + 1,
                        !.pc = Addr(opcode)])

\* variant: the stack is taken to have one slot more than it has
exec_CALL_one_more(m, opcode) ==
    IF m.sp > STACK_SIZE THEN Panic(m)
    ELSE Done([m EXCEPT !.stack = [s \in 0 .. STACK_SIZE - 1 |->
                                      IF s = m.sp THEN m.pc ELSE m.stack[s]],
                        !.sp = m.sp + 1,
                        !.pc = Addr(opcode)])

exec_CALL(m, opcode) ==
    IF m.sp >= STACK_SIZE THEN Panic(m)
    ELSE Done([m EXCEPT !.stack[m.sp] = m.pc,
                        !.sp = m.sp + 1,
                        !.pc = Addr(opcode)])

exec_SE_byte(m, opcode, chk) ==
    SkipIf(m, m.registers[nibbles(opcode)[2]] = Byte(opcode), chk)

exec_SNE_byte(m, opcode, chk) ==
    SkipIf(m, m.registers[nibbles(opcode)[2]] # Byte(opcode), chk)

exec_SE_reg(m, opcode, chk) ==
    SkipIf(m, m.registers[nibbles(opcode)[2]] = m.registers[nibbles(opcode)[3]], chk)

exec_LD_byte(m, opcode) == Done(SetReg(m, nibbles(opcode)[2], Byte(opcode)))

exec_ADD_byte(m, opcode) ==
    LET vx == nibbles(opcode)[2]
    IN  Done(SetReg(m, vx, (m.registers[vx] + Byte(opcode)) % U8))

exec_LD_reg(m, opcode) ==
    Done(SetReg(m, nibbles(opcode)[2], m.registers[nibbles(opcode)[3]]))

exec_OR(m, opcode) ==
    LET vx == nibbles(opcode)[2]
        vy == nibbles(opcode)[3]
    IN  Done(SetReg(m, vx, BitOr(m.registers[vx], m.registers[vy])))

exec_AND(m, opcode) ==
    LET vx == nibbles(opcode)[2]
        vy == nibbles(opcode)[3]
    IN  Done(SetReg(m, vx, BitAnd(m.registers[vx], m.registers[vy])))

exec_XOR(m, opcode) ==
    LET vx == nibbles(opcode)[2]
        vy == nibbles(opcode)[3]
    IN  Done(SetReg(m, vx, BitXor(m.registers[vx], m.registers[vy])))

\* variant: VF is written before Vx
exec_ADD_reg_flag_first(m, opcode) ==
    LET vx == nibbles(opcode)[2]
        vy == nibbles(opcode)[3]
        sum == m.registers[vx] + m.registers[vy]
        new_vx == sum % U8
        new_vf == IF sum >= U8 THEN 1 ELSE 0
    IN  Done(SetReg(SetReg(m, 15, new_vf), vx, new_vx))

\* overflowing_add, then Vx is written, then VF
exec_ADD_reg(m, opcode) ==
    LET vx == nibbles(opcode)[2]
        vy == nibbles(opcode)[3]
        sum == m.registers[vx] + m.registers[vy]
        new_vx == sum % U8
        new_vf == IF sum >= U8 THEN 1 ELSE 0
    IN  Done(SetReg(SetReg(m, vx, new_vx), 15, new_vf))

\* overflowing_sub, then Vx is written, then VF
exec_SUB(m, opcode) ==
    LET vx == nibbles(opcode)[2]
        vy == nibbles(opcode)[3]
        new_vx == (m.registers[vx] - m.registers[vy]) % U8
        new_vf == IF m.registers[vx] < m.registers[vy] THEN 0 ELSE 1
    IN  Done(SetReg(SetReg(m, vx, new_vx), 15, new_vf))

\* VF is written first, then Vx is shifted (reading Vx again)
exec_SHR(m, opcode) ==
    LET vx == nibbles(opcode)[2]
        m1 == SetReg(m, 15, m.registers[vx] % 2)
    IN  Done(SetReg(m1, vx, m1.registers[vx] \div 2))

\* VF is written first; the subtraction then reads the registers again and
\* is a plain `-` on u8: it panics on underflow in a checked build
exec_SUBN(m, opcode, chk) ==
    LET vx == nibbles(opcode)[2]
        vy == nibbles(opcode)[3]
        m1 == SetReg(m, 15, IF m.registers[vy] > m.registers[vx] THEN 1 ELSE 0)
        diff == m1.registers[vy] - m1.registers[vx]
    IN  IF diff < 0 /\ chk THEN Panic(m1)
        ELSE Done(SetReg(m1, vx, diff % U8))

exec_SHL(m, opcode) ==
    LET vx == nibbles(opcode)[2]
        m1 == SetReg(m, 15, Bit(m.registers[vx], 7))
    IN  Done(SetReg(m1, vx, (m1.registers[vx] * 2) % U8))

exec_SNE_reg(m, opcode, chk) ==
    SkipIf(m, m.registers[nibbles(opcode)[2]] # m.registers[nibbles(opcode)[3]], chk)

exec_LD_I(m, opcode) == Done([m EXCEPT !.index = Addr(opcode)])

exec_JP_V0(m, opcode) == Done([m EXCEPT !.pc = m.registers[0] + Addr(opcode)])

exec_RND(m, opcode, rng) ==
    Done(SetReg(m, nibbles(opcode)[2], BitAnd(rng, Byte(opcode))))

\* variant: the bits of a sprite row are taken least significant first
RECURSIVE DrawBits_lsb_first(_, _, _, _, _)
DrawBits_lsb_first(d, pixels, x_coord, y, x_line) ==
    IF x_line = 8 THEN d
    ELSE IF Bit(pixels, x_line) # 0
         THEN LET x == (x_coord + x_line) % CHIP8_WIDTH
                  idx == x + CHIP8_WIDTH * y
              IN  DrawBits_lsb_first(
                      [video   |-> [d.video EXCEPT ![idx] = ~d.video[idx]],
                       flipped |-> d.flipped \/ d.video[idx]],
                      pixels, x_coord, y, x_line + 1)
         ELSE DrawBits_lsb_first(d, pixels, x_coord, y, x_line + 1)

\* variant: the pixels of a sprite are set instead of toggled
RECURSIVE DrawBits_set(_, _, _, _, _)
DrawBits_set(d, pixels, x_coord, y, x_line) ==
    IF x_line = 8 THEN d
    ELSE IF Bit(pixels, 7 - x_line) # 0
         THEN LET x == (x_coord + x_line) % CHIP8_WIDTH
                  idx == x + CHIP8_WIDTH * y
              IN  DrawBits_set([video   |-> [d.video EXCEPT ![idx] = TRUE],
                                flipped |-> d.flipped \/ d.video[idx]],
                               pixels, x_coord, y, x_line + 1)
         ELSE DrawBits_set(d, pixels, x_coord, y, x_line + 1)

\* the inner loop of DRW (lib.rs 389-398): the 8 bits of one sprite row,
\* most significant first; d is [video, flipped]
RECURSIVE DrawBits(_, _, _, _, _)
DrawBits(d, pixels, x_coord, y, x_line) ==
    IF x_line = 8 THEN d
    ELSE IF Bit(pixels, 7 - x_line) # 0
         THEN LET x == (x_coord + x_line) % CHIP8_WIDTH
                  idx == x + CHIP8_WIDTH * y
              IN  DrawBits([video   |-> [d.video EXCEPT ![idx] = ~d.video[idx]],
                            flipped |-> d.flipped \/ d.video[idx]],
                           pixels, x_coord, y, x_line + 1)
         ELSE DrawBits(d, pixels, x_coord, y, x_line + 1)

\* the outer loop of DRW (lib.rs 385-399), as the machine and the flag after
\* the first num_rows rows: `self.index + y_line` is a u16 addition, and the
\* read of memory is bounds-checked; a panic leaves the rows drawn so far in
\* video
RECURSIVE DrawRows(_, _, _, _, _)
DrawRows(m, x_coord, y_coord, num_rows, chk) ==
    IF num_rows = 0 THEN [m |-> m, flipped |-> FALSE, ok |-> TRUE]
    ELSE LET p == DrawRows(m, x_coord, y_coord, num_rows - 1, chk)
             y_line == num_rows - 1
             addr == (m.index + y_line) % U16
         IN  IF ~p.ok THEN p
             ELSE IF m.index + y_line >= U16 /\ chk THEN [p EXCEPT !.ok = FALSE]
             ELSE IF addr >= MEMORY_SIZE THEN [p EXCEPT !.ok = FALSE]
             ELSE LET d == DrawBits([video |-> p.m.video, flipped |-> p.flipped],
                                    m.memory[addr], x_coord,
                                    (y_coord + y_line) % CHIP8_HEIGHT, 0)
                  IN  [m |-> [p.m EXCEPT !.video = d.video],
                       flipped |-> d.flipped, ok |-> TRUE]

exec_DRW(m, opcode, chk) ==
    LET r == DrawRows(m, m.registers[nibbles(opcode)[2]],
                      m.registers[nibbles(opcode)[3]], nibbles(opcode)[4], chk)
    IN  IF r.ok THEN Done(SetReg(r.m, 15, IF r.flipped THEN 1 ELSE 0))
        ELSE Panic(r.m)

exec_SKP(m, opcode, chk) ==
    LET key == m.registers[nibbles(opcode)[2]]
    IN  IF key >= NUM_KEYS THEN Panic(m) ELSE SkipIf(m, m.keypad[key], chk)

exec_SKNP(m, opcode, chk) ==
    LET key == m.registers[nibbles(opcode)[2]]
    IN  IF key >= NUM_KEYS THEN Panic(m) ELSE SkipIf(m, ~m.keypad[key], chk)

exec_LD_Vx_DT(m, opcode) == Done(SetReg(m, nibbles(opcode)[2], m.dtimer))

\* variant: the program counter is not rewound when no key is pressed
exec_LD_K_no_rewind(m, opcode, chk) ==
    LET down == {i \in 0 .. NUM_KEYS - 1 : m.keypad[i]}
    IN  IF down # {}
        THEN Done(SetReg(m, nibbles(opcode)[2],
                         CHOOSE i \in down : \A j \in down : i <= j))
        ELSE Done(m)

\* variant: the program counter is rewound also when a key was found
exec_LD_K_rewinds_always(m, opcode, chk) ==
    LET down == {i \in 0 .. NUM_KEYS - 1 : m.keypad[i]}
        m1 == IF down # {}
              THEN SetReg(m, nibbles(opcode)[2],
                          CHOOSE i \in down : \A j \in down : i <= j)
              ELSE m
    IN  IF m.pc < 2
        THEN IF chk THEN Panic(m1) ELSE Done([m1 EXCEPT !.pc = (m.pc - 2) % U16])
        ELSE Done([m1 EXCEPT !.pc = m.pc - 2])

\* the first pressed key in index order, or `self.pc -= 2` on a u16
exec_LD_K(m, opcode, chk) ==
    LET down == {i \in 0 .. NUM_KEYS - 1 : m.keypad[i]}
    IN  IF down # {}
        THEN Done(SetReg(m, nibbles(opcode)[2],
                         CHOOSE i \in down : \A j \in down : i <= j))
        ELSE IF m.pc < 2
             THEN IF chk THEN Panic(m) ELSE Done([m EXCEPT !.pc = (m.pc - 2) % U16])
             ELSE Done([m EXCEPT !.pc = m.pc - 2])

exec_LD_DT(m, opcode) == Done([m EXCEPT !.dtimer = m.registers[nibbles(opcode)[2]]])

exec_LD_ST(m, opcode) == Done([m EXCEPT !.stimer = m.registers[nibbles(opcode)[2]]])

exec_ADD_I(m, opcode) ==
    Done([m EXCEPT !.index = (m.index + m.registers[nibbles(opcode)[2]]) % U16])

exec_LD_F(m, opcode) ==
    Done([m EXCEPT !.index = FONTSET_START_ADDRESS + 5 * m.registers[nibbles(opcode)[2]]])

\* the three digits (computed in f32, exact for 0..255); each write is
\* bounds-checked
exec_LD_B(m, opcode) ==
    LET value == m.registers[nibbles(opcode)[2]]
        hundreds == value \div 100
        tens == (value \div 10) % 10
        ones == value % 10
    IN  IF m.index >= MEMORY_SIZE THEN Panic(m)
        ELSE LET m1 == [m EXCEPT !.memory[m.index] = hundreds]
             IN  IF m.index + 1 >= MEMORY_SIZE THEN Panic(m1)
                 ELSE LET m2 == [m1 EXCEPT !.memory[m.index + 1] = tens]
                      IN  IF m.index + 2 >= MEMORY_SIZE THEN Panic(m2)
                          ELSE Done([m2 EXCEPT !.memory[m.index + 2] = ones])

\* for idx in 0..=vx { memory[i + idx] = registers[idx] }
RECURSIVE StoreRegs(_, _, _)
StoreRegs(m, idx, vx) ==
    IF idx > vx THEN Done(m)
    ELSE IF m.index + idx >= MEMORY_SIZE THEN Panic(m)
    ELSE StoreRegs([m EXCEPT !.memory[m.index + idx] = m.registers[idx]], idx + 1, vx)

\* variant: index is advanced past the bytes written
exec_LD_I_Vx_advances(m, opcode) ==
    LET r == StoreRegs(m, 0, nibbles(opcode)[2])
    IN  IF r.ok THEN Done([r.m EXCEPT !.index = m.index + nibbles(opcode)[2] + 1])
        ELSE r

exec_LD_I_Vx(m, opcode) == StoreRegs(m, 0, nibbles(opcode)[2])

\* for idx in 0..=vx { registers[idx] = memory[i + idx] }
RECURSIVE LoadRegs(_, _, _)
LoadRegs(m, idx, vx) ==
    IF idx > vx THEN Done(m)
    ELSE IF m.index + idx >= MEMORY_SIZE THEN Panic(m)
    ELSE LoadRegs(SetReg(m, idx, m.memory[m.index + idx]), idx + 1, vx)

exec_LD_Vx_I(m, opcode) == LoadRegs(m, 0, nibbles(opcode)[2])

exec_unimplemented(m) == Panic(m)

\* the match of execute (lib.rs 202-503); rng is the byte rand::rng() yields
execute(m, opcode, rng, chk) ==
    LET n == nibbles(opcode)
    IN  CASE n = <<0, 0, 0, 0>>   -> exec_NOP(m)
          [] n = <<0, 0, 14, 0>>  -> exec_CLS(m)
          [] n = <<0, 0, 14, 14>> -> exec_RET(m, chk)
          [] n[1] = 1  -> exec_JP(m, opcode)
          [] n[1] = 2  -> exec_CALL(m, opcode)
          [] n[1] = 3  -> exec_SE_byte(m, opcode, chk)
          [] n[1] = 4  -> exec_SNE_byte(m, opcode, chk)
          [] n[1] = 5  -> exec_SE_reg(m, opcode, chk)
          [] n[1] = 6  -> exec_LD_byte(m, opcode)
          [] n[1] = 7  -> exec_ADD_byte(m, opcode)
          [] n[1] = 8 /\ n[4] = 0  -> exec_LD_reg(m, opcode)
          [] n[1] = 8 /\ n[4] = 1  -> exec_OR(m, opcode)
          [] n[1] = 8 /\ n[4] = 2  -> exec_AND(m, opcode)
          [] n[1] = 8 /\ n[4] = 3  -> exec_XOR(m, opcode)
          [] n[1] = 8 /\ n[4] = 4  -> exec_ADD_reg(m, opcode)
          [] n[1] = 8 /\ n[4] = 5  -> exec_SUB(m, opcode)
          [] n[1] = 8 /\ n[4] = 6  -> exec_SHR(m, opcode)
          [] n[1] = 8 /\ n[4] = 7  -> exec_SUBN(m, opcode, chk)
          [] n[1] = 8 /\ n[4] = 14 -> exec_SHL(m, opcode)
          [] n[1] = 9 /\ n[4] = 0  -> exec_SNE_reg(m, opcode, chk)
          [] n[1] = 10 -> exec_LD_I(m, opcode)
          [] n[1] = 11 -> exec_JP_V0(m, opcode)
          [] n[1] = 12 -> exec_RND(m, opcode, rng)
          [] n[1] = 13 -> exec_DRW(m, opcode, chk)
          [] n[1] = 14 /\ n[3] = 9 /\ n[4] = 14  -> exec_SKP(m, opcode, chk)
          [] n[1] = 14 /\ n[3] = 10 /\ n[4] = 1  -> exec_SKNP(m, opcode, chk)
          [] n[1] = 15 /\ n[3] = 0 /\ n[4] = 7   -> exec_LD_Vx_DT(m, opcode)
          [] n[1] = 15 /\ n[3] = 0 /\ n[4] = 10  -> exec_LD_K(m, opcode, chk)
          [] n[1] = 15 /\ n[3] = 1 /\ n[4] = 5   -> exec_LD_DT(m, opcode)
          [] n[1] = 15 /\ n[3] = 1 /\ n[4] = 8   -> exec_LD_ST(m, opcode)
          [] n[1] = 15 /\ n[3] = 1 /\ n[4] = 14  -> exec_ADD_I(m, opcode)
          [] n[1] = 15 /\ n[3] = 2 /\ n[4] = 9   -> exec_LD_F(m, opcode)
          [] n[1] = 15 /\ n[3] = 3 /\ n[4] = 3   -> exec_LD_B(m, opcode)
          [] n[1] = 15 /\ n[3] = 5 /\ n[4] = 5   -> exec_LD_I_Vx(m, opcode)
          [] n[1] = 15 /\ n[3] = 6 /\ n[4] = 5   -> exec_LD_Vx_I(m, opcode)
          [] OTHER -> exec_unimplemented(m)

\* Chip8::tick: fetch, then execute the word fetched
tick(m, rng, chk) ==
    LET f == fetch(m)
    IN  IF ~f.ok THEN [m |-> f.m, ok |-> FALSE, op |-> 0, fetched |-> FALSE]
        ELSE LET e == execute(f.m, f.op, rng, chk)
             IN  [m |-> e.m, ok |-> e.ok, op |-> f.op, fetched |-> TRUE]

----------------------------------------------------------------------------
(* The methods as actions.  Each records the struct before the call in     *)
(* `pre` and the call in `last`.                                           *)

NoCall ==
    [kind |-> "new", op |-> 0, arg |-> 0, ok |-> TRUE, site |-> -1,
     again |-> FALSE, run |-> 0]

\* last = [kind: the method, op: the instruction word (tick, execute) or the
\* new key state (keypress), arg: the ROM length (load_rom), the key index
\* (keypress) or whether the fetch returned (tick), ok: the method returned
\* normally (load_rom: returned Ok), site: for a RET that returned, the
\* address at which the matching CALL was fetched, again: the call before
\* this one was the same method with the same instruction word, run: the
\* number of direct calls of execute in a row, this one included]
Record(kind, op, arg, ok, site) ==
    /\ pre' = chip8
    /\ last' = [kind |-> kind, op |-> op, arg |-> arg, ok |-> ok, site |-> site,
                again |-> (last.kind = kind /\ last.op = op
                             /\ kind \in {"tick", "execute"}),
                run |-> IF kind = "execute" THEN last.run + 1 ELSE 0]

\* the bytes rand::rng().random() can yield; only RND draws one
RngInputs(opcode) == IF nibbles(opcode)[1] = 12 THEN 0 .. U8 - 1 ELSE {0}

IsCALL(opcode) == nibbles(opcode)[1] = 2
IsRET(opcode) == opcode = 238

\* history of the pending calls: the addresses their CALLs were fetched at
CallsAfter(opcode, ok, at) ==
    IF ~ok THEN calls
    ELSE IF IsCALL(opcode) THEN Append(calls, at)
    ELSE IF IsRET(opcode) /\ Len(calls) > 0 THEN SubSeq(calls, 1, Len(calls) - 1)
    ELSE calls

SiteOf(opcode, ok) ==
    IF ok /\ IsRET(opcode) /\ Len(calls) > 0 THEN calls[Len(calls)] ELSE -1

IsLD_DT(opcode) == nibbles(opcode)[1] = 15 /\ opcode % 256 = 21
IsLD_ST(opcode) == nibbles(opcode)[1] = 15 /\ opcode % 256 = 24

\* the calls of tick_timers that are counted after a store into a timer
MaxTicks == 3

\* no store into either timer yet
NoStore == [dt |-> [v |-> -1, ticks |-> 0], st |-> [v |-> -1, ticks |-> 0]]

\* history of the timers after execute: LD DT, Vx and LD ST, Vx store Vx
SinceAfter(opcode, ok) ==
    LET stored == [v |-> chip8.registers[nibbles(opcode)[2]], ticks |-> 0]
    IN  IF ~ok THEN since
        ELSE IF IsLD_DT(opcode) THEN [since EXCEPT !.dt = stored]
        ELSE IF IsLD_ST(opcode) THEN [since EXCEPT !.st = stored]
        ELSE since

\* history of the timers after tick_timers: one more call, counted up to
\* MaxTicks
SinceTicked ==
    LET more(h) == [h EXCEPT !.ticks = IF h.ticks < MaxTicks THEN h.ticks + 1
                                                             ELSE h.ticks]
    IN  [dt |-> more(since.dt), st |-> more(since.st)]

IsLD_I_Vx(opcode) == nibbles(opcode)[1] = 15 /\ opcode % 256 = 85
IsLD_Vx_I(opcode) == nibbles(opcode)[1] = 15 /\ opcode % 256 = 101

\* no LD [I], Vx yet
NoSave == [x |-> -1, index |-> 0, registers |-> new.registers]

\* history of the stores after execute
SavedAfter(opcode, ok) ==
    IF ok /\ IsLD_I_Vx(opcode)
    THEN [x |-> nibbles(opcode)[2], index |-> chip8.index,
          registers |-> chip8.registers]
    ELSE saved

\* run has not been called
NoRun == [phase |-> "idle", ticked |-> 0, ticks_per_frame |-> 0, events |-> <<>>]

LoadRom(rom_data) ==
    /\ ~panicked
    /\ LET r == load_rom(chip8, rom_data)
       IN  /\ chip8' = r.m
           /\ loaded' = (loaded \/ r.ok)
           /\ Record("load_rom", 0, Len(rom_data), r.ok, -1)
    /\ UNCHANGED <<panicked, checked, calls, since, saved>>

\* load_rom of a file that cannot be read: `fs::read(filename)?` returns
\* the Err before anything is touched
LoadRomUnreadable ==
    /\ ~panicked
    /\ chip8' = chip8
    /\ Record("load_rom", 0, -1, FALSE, -1)
    /\ UNCHANGED <<panicked, checked, loaded, calls, since, saved, driver>>

Tick ==
    /\ ~panicked
    /\ \E rng \in RngInputs(fetch(chip8).op) :
          LET r == tick(chip8, rng, checked)
          IN  /\ chip8' = r.m
              /\ panicked' = ~r.ok
              /\ calls' = CallsAfter(r.op, r.ok /\ r.fetched, chip8.pc)
              /\ since' = SinceAfter(r.op, r.ok /\ r.fetched)
              /\ saved' = SavedAfter(r.op, r.ok /\ r.fetched)
              /\ Record("tick", r.op, IF r.fetched THEN 1 ELSE 0, r.ok,
                        SiteOf(r.op, r.ok /\ r.fetched))
    /\ UNCHANGED <<checked, loaded>>

Execute(opcode) ==
    /\ ~panicked
    /\ \E rng \in RngInputs(opcode) :
          LET r == execute(chip8, opcode, rng, checked)
          IN  /\ chip8' = r.m
              /\ panicked' = ~r.ok
              /\ calls' = CallsAfter(opcode, r.ok, chip8.pc - 2)
              /\ since' = SinceAfter(opcode, r.ok)
              /\ saved' = SavedAfter(opcode, r.ok)
              /\ Record("execute", opcode, 0, r.ok, SiteOf(opcode, r.ok))
    /\ UNCHANGED <<checked, loaded>>

TickTimers ==
    /\ ~panicked
    /\ chip8' = tick_timers(chip8)
    /\ since' = SinceTicked
    /\ Record("tick_timers", 0, 0, TRUE, -1)
    /\ UNCHANGED <<panicked, checked, loaded, calls, saved>>

Keypress(idx, pressed) ==
    /\ ~panicked
    /\ LET r == keypress(chip8, idx, pressed)
       IN  /\ chip8' = r.m
           /\ panicked' = ~r.ok
           /\ Record("keypress", IF pressed THEN 1 ELSE 0, idx, r.ok, -1)
    /\ UNCHANGED <<checked, loaded, calls, since, saved>>

----------------------------------------------------------------------------
(* Programs.  A ROM is written as a sequence of instruction words and      *)
(* loaded as the bytes of those words, high byte first.                    *)

Assemble(words) ==
    [i \in 1 .. 2 * Len(words) |->
        IF i % 2 = 1 THEN words[(i + 1) \div 2] \div 256
                     ELSE words[i \div 2] % 256]

\* 0x200  RND V0, 1        V0 = 0 or 1
\* 0x202  ADD V0, 15       V0 = 15 or 16: the number of nested calls below
\* 0x204  CALL 0x208
\* 0x206  RET              with the stack empty again
\* 0x208  SNE V0, 0
\* 0x20A  RET
\* 0x20C  ADD V0, 0xFF     V0 = V0 - 1
\* 0x20E  CALL 0x208
\* 0x210  RET
RomNest ==
    Assemble(<<\hC001, \h700F, \h2208, \h00EE,
               \h4000, \h00EE, \h70FF, \h2208, \h00EE>>)

\* a ROM that fills memory to its last byte:
\* 0x200  CALL 0xFFC
\* 0x202  JP 0xFFE
\* 0xFFC  RET
\* 0xFFE  CALL 0xFFC      the call in the last two bytes of memory
RomFar ==
    [i \in 1 .. MEMORY_SIZE - START_ADDRESS |->
        CASE i = 1 -> 47 [] i = 2 -> 252
          [] i = 3 -> 31 [] i = 4 -> 254
          [] i = 3582 -> 238
          [] i = 3583 -> 47 [] i = 3584 -> 252
          [] OTHER -> 0]

Roms == {RomNest, RomFar}

Init ==
    /\ chip8 = new
    /\ panicked = FALSE
    /\ checked \in BOOLEAN
    /\ loaded = FALSE
    /\ pre = new
    /\ last = NoCall
    /\ calls = <<>>
    /\ since = NoStore
    /\ saved = NoSave
    /\ driver = NoRun

Load ==
    /\ \E rom_data \in Roms :
          ~loaded /\ LoadRom(rom_data)
    /\ UNCHANGED driver

Cycle == loaded /\ Tick /\ UNCHANGED driver

Next == Load \/ Cycle

Spec == Init /\ [][Next]_vars

----------------------------------------------------------------------------
(* Claims checked under Spec *)

Ticked(opcode) == last.kind = "tick" /\ last.arg = 1 /\ last.op = opcode
TickedCALL == last.kind = "tick" /\ last.arg = 1 /\ IsCALL(last.op)
TickedRET == Ticked(238)

\* C1: a CALL with fewer than 16 addresses on the stack returns normally and
\* raises the stack pointer by one; a CALL with 16 on the stack panics and
\* leaves the stack pointer at 16; a RET with a non-empty stack returns
\* normally and lowers the stack pointer by one, so that 16 nested CALLs and
\* 16 RETs end with stack pointer 0; a RET with stack pointer 0 panics.
C1_StackDepth ==
    /\ TickedCALL /\ pre.sp < STACK_SIZE =>
          last.ok /\ ~panicked /\ chip8.sp = pre.sp + 1
    /\ TickedCALL /\ pre.sp >= STACK_SIZE =>
          ~last.ok /\ panicked /\ chip8.sp = STACK_SIZE /\ chip8.stack = pre.stack
    /\ TickedRET /\ pre.sp > 0 =>
          last.ok /\ ~panicked /\ chip8.sp = pre.sp - 1
    /\ TickedRET /\ pre.sp = 0 => ~last.ok /\ panicked
    /\ Len(calls) <= STACK_SIZE

\* 16 calls were nested (the 16th slot of the stack was written) and 16 RETs
\* have brought the stack pointer back to 0
C1_Witness ==
    /\ TickedRET /\ last.ok
    /\ chip8.sp = 0
    /\ chip8.stack[STACK_SIZE - 1] # 0

\* the 17th nested CALL has panicked
C1_WitnessOverflow == TickedCALL /\ pre.sp = STACK_SIZE /\ panicked

\* C2: a RET that returns sets program_counter to a + 2, where a is the
\* address at which the matching CALL (the last one not yet returned from)
\* was fetched; the stack pointer counts the calls not yet returned from.
C2_ReturnAddress ==
    /\ ~panicked => chip8.sp = Len(calls)
    /\ TickedRET /\ last.ok => last.site >= 0 /\ chip8.pc = last.site + 2

\* a return from the 16th nested call, to the instruction after its CALL
C2_Witness ==
    /\ TickedRET /\ last.ok
    /\ chip8.sp = STACK_SIZE - 1
    /\ last.site = 526
    /\ chip8.pc = 528

----------------------------------------------------------------------------
(* SpecDecode: one call of execute on a new machine, for the instruction *)
(* words of the six groups (first digit 0, 5, 8, 9, E, F) in which the   *)
(* match has arms narrower than the whole group, with the register       *)
(* operands drawn from RegSample.                                        *)

\* register operands: two general registers and the flag register
RegSample == {0, 1, 15}

Fresh(m) ==
    /\ chip8 = m
    /\ panicked = FALSE
    /\ checked \in BOOLEAN
    /\ loaded = FALSE
    /\ pre = m
    /\ last = NoCall
    /\ calls = <<>>
    /\ since = NoStore
    /\ saved = NoSave
    /\ driver = NoRun

DecodeOps ==
    {op \in 0 .. U16 - 1 :
        LET n == nibbles(op)
        IN  \/ n[1] = 0
            \/ n[1] \in {5, 8, 9} /\ n[2] \in RegSample /\ n[3] \in RegSample
            \/ n[1] \in {14, 15} /\ n[2] \in RegSample}

InitDecode == Fresh(new)

Decode ==
    /\ \E op \in DecodeOps :
          last.kind = "new" /\ Execute(op)
    /\ UNCHANGED driver

SpecDecode == InitDecode /\ [][Decode]_vars

Executed == last.kind = "execute"

\* the patterns of the opcode table of the specification
InOpcodeTable(op) ==
    LET n == nibbles(op)
    IN  \/ op \in {0, 224, 238}
        \/ n[1] \in {1, 2, 3, 4, 6, 7, 10, 11, 12, 13}
        \/ n[1] \in {5, 9} /\ n[4] = 0
        \/ n[1] = 8 /\ n[4] \in {0, 1, 2, 3, 4, 5, 6, 7, 14}
        \/ n[1] = 14 /\ op % 256 \in {158, 161}
        \/ n[1] = 15 /\ op % 256 \in {7, 10, 21, 24, 30, 41, 51, 85, 101}

\* C3: execute rejects every instruction word outside the opcode table with
\* a panic, and changes nothing.
C3_UnknownRejected ==
    Executed /\ ~InOpcodeTable(last.op) => ~last.ok /\ panicked /\ chip8 = pre

\* what the code does instead: the words 0x5xyN with N # 0 are executed as
\* SE Vx, Vy; every other word outside the table is rejected
C3_OnlySE ==
    Executed /\ ~InOpcodeTable(last.op) /\ nibbles(last.op)[1] # 5
        => ~last.ok /\ panicked /\ chip8 = pre

----------------------------------------------------------------------------
(* SpecStore: one call of execute for the instructions that index memory,  *)
(* on machines whose index register is inside memory, within EdgeSpan      *)
(* bytes of its end, or beyond it.  The registers are set as      *)
(* LD Vx, byte sets them, index as LD I, addr and ADD I, Vx set it, and    *)
(* memory is that of a new machine or of one with RomFar loaded.           *)

EdgeSpan == 2

IndexSample ==
    {768, U16 - 1} \cup (MEMORY_SIZE - EdgeSpan .. MEMORY_SIZE)

StoreMachine(idx, m) ==
    [m EXCEPT !.registers = [r \in 0 .. NUM_REGISTERS - 1 |-> 100 + r],
              !.index = idx]

StoreOps ==
    {61440 + 256 * x + kk : x \in {0, 1, 2, 15}, kk \in {51, 85, 101}}
        \cup {53264 + n : n \in {0, 1, 2, 3, 15}}

InitStore ==
    \E idx \in IndexSample, m \in {new, load_rom(new, RomFar).m} :
        Fresh(StoreMachine(idx, m))

Store ==
    /\ \E op \in StoreOps :
          last.kind = "new" /\ Execute(op)
    /\ UNCHANGED driver

SpecStore == InitStore /\ [][Store]_vars

\* C4: a call of execute that fails leaves the machine as it was before the
\* call (no state holds part of an instruction's effects).
C4_Atomic == Executed /\ ~last.ok => chip8 = pre

----------------------------------------------------------------------------
(* SpecAlu: one call of execute for the flag-writing register instructions *)
(* 8xy4, 8xy5, 8xy6, 8xy7 and 8xyE, with x and y drawn from RegSample, on  *)
(* machines whose registers V0, V1 and VF hold values within AluSpread of  *)
(* 0 and of 255, or 128 (set as LD Vx, byte sets them).                    *)

AluSpread == 1

AluVals == (0 .. AluSpread) \cup {128} \cup (U8 - AluSpread .. U8 - 1)

AluMachine(a, b, f) ==
    [new EXCEPT !.registers =
        [r \in 0 .. NUM_REGISTERS - 1 |->
            CASE r = 0 -> a [] r = 1 -> b [] r = 15 -> f [] OTHER -> 0]]

AluOps ==
    {32768 + 256 * x + 16 * y + n :
        x \in RegSample, y \in RegSample, n \in {4, 5, 6, 7, 14}}

InitAlu == \E a \in AluVals, b \in AluVals, f \in AluVals : Fresh(AluMachine(a, b, f))

Alu ==
    /\ \E op \in AluOps :
          last.kind = "new" /\ Execute(op)
    /\ UNCHANGED driver

SpecAlu == InitAlu /\ [][Alu]_vars

\* the last call was execute of the word 0x8xyN
Executed8(n) == Executed /\ nibbles(last.op)[1] = 8 /\ nibbles(last.op)[4] = n
X == nibbles(last.op)[2]
Y == nibbles(last.op)[3]
V == chip8.registers
Vpre == pre.registers

OthersKept(changed) ==
    \A r \in 0 .. NUM_REGISTERS - 1 : r \notin changed => V[r] = Vpre[r]

\* C5: 0x8xy7 never panics; afterwards VF = 1 if Vy > Vx before the
\* instruction, else 0, and for x # 0xF, Vx = (Vy - Vx) mod 256 of the values
\* before the instruction.
C5_ReverseSubtract ==
    Executed8(7) =>
        /\ last.ok /\ ~panicked
        /\ V[15] = IF Vpre[Y] > Vpre[X] THEN 1 ELSE 0
        /\ X # 15 => V[X] = (Vpre[Y] - Vpre[X]) % U8

\* C6: after 0x8xy4, VF = 1 exactly when the sum of Vx and Vy before the
\* instruction exceeds 255 and, for x # 0xF, Vx is that sum mod 256; after
\* 0x8xy5, VF = 1 exactly when Vx >= Vy before the instruction and, for
\* x # 0xF, Vx is the difference mod 256; no other register changes.
C6_AddSub ==
    /\ Executed8(4) =>
          /\ last.ok
          /\ V[15] = IF Vpre[X] + Vpre[Y] > U8 - 1 THEN 1 ELSE 0
          /\ X # 15 => V[X] = (Vpre[X] + Vpre[Y]) % U8
          /\ OthersKept({X, 15})
    /\ Executed8(5) =>
          /\ last.ok
          /\ V[15] = IF Vpre[X] >= Vpre[Y] THEN 1 ELSE 0
          /\ X # 15 => V[X] = (Vpre[X] - Vpre[Y]) % U8
          /\ OthersKept({X, 15})

\* 0x8F14 with VF = 255 and V1 = 1: the sum is 256, VF holds the carry
C6_Witness ==
    /\ Executed8(4) /\ X = 15 /\ Y = 1
    /\ Vpre[15] = U8 - 1 /\ Vpre[1] = 1
    /\ V[15] = 1

\* 0x8015 with V0 = 0 and V1 = 1: a borrow, V0 wraps to 255
C6_WitnessBorrow ==
    /\ Executed8(5) /\ X = 0 /\ Y = 1
    /\ Vpre[0] = 0 /\ Vpre[1] = 1
    /\ V[0] = U8 - 1 /\ V[15] = 0

----------------------------------------------------------------------------
(* SpecKeys: a program that sets both timers and waits for a key, run by   *)
(* tick while the driver's keypress and tick_timers calls arrive in any    *)
(* order.                                                                  *)

\* 0x200  LD V0, 2
\* 0x202  LD DT, V0
\* 0x204  LD ST, V0
\* 0x206  LD V1, K         wait for a key
\* 0x208  JP 0x200
RomKeys == Assemble(<<\h6002, \hF015, \hF018, \hF10A, \h1200>>)

\* the keys the driver presses and releases
KeySample == {3, 7}

LoadKeys == ~loaded /\ LoadRom(RomKeys) /\ UNCHANGED driver

Key ==
    /\ \E idx \in KeySample, pressed \in BOOLEAN :
          loaded /\ Keypress(idx, pressed)
    /\ UNCHANGED driver

Timer == loaded /\ TickTimers /\ UNCHANGED driver

NextKeys == LoadKeys \/ Cycle \/ Key \/ Timer

SpecKeys == Init /\ [][NextKeys]_vars

IsLD_K(op) == nibbles(op)[1] = 15 /\ op % 256 = 10

TickedLD_K == last.kind = "tick" /\ last.arg = 1 /\ IsLD_K(last.op)

Down(m) == {i \in 0 .. NUM_KEYS - 1 : m.keypad[i]}

\* C7: a cycle that fetches 0xFx0A with no key pressed leaves the whole
\* machine as it was before the cycle; with a key pressed it sets Vx to the
\* lowest pressed key index, advances program_counter by 2 and changes
\* nothing else.
C7_KeyWait ==
    TickedLD_K =>
        /\ last.ok
        /\ Down(pre) = {} => chip8 = pre
        /\ Down(pre) # {} =>
              \E i \in Down(pre) :
                  /\ \A j \in Down(pre) : i <= j
                  /\ chip8 = [pre EXCEPT !.registers[X] = i, !.pc = pre.pc + 2]

\* keys 3 and 7 are both down and the wait has completed with V1 = 3
C7_Witness ==
    /\ TickedLD_K
    /\ Down(pre) = {3, 7}
    /\ chip8.registers[1] = 3 /\ chip8.pc = 520

\* the wait has been re-issued: no key is down and pc is back at 0x206
C7_WitnessWait ==
    /\ TickedLD_K /\ last.again
    /\ Down(pre) = {}
    /\ chip8.pc = 518 /\ chip8.dtimer = 1

----------------------------------------------------------------------------
(* SpecDraw: up to MaxDraws calls of execute in a row with DRW words, on   *)
(* a machine with RomSprites loaded and a clear framebuffer; V0, V1 and    *)
(* index are set as LD Vx, byte and LD I, addr set them.                   *)

MaxDraws == 3

\* sprite rows at 0x200..0x207 and in the last two bytes of memory
RomSprites ==
    [i \in 1 .. MEMORY_SIZE - START_ADDRESS |->
        CASE i = 1 -> 255 [] i = 2 -> 129 [] i = 3 -> 0 [] i = 4 -> 60
          [] i = 5 -> 1 [] i = 6 -> 128 [] i = 7 -> 170 [] i = 8 -> 85
          [] i = 3583 -> 255 [] i = 3584 -> 24
          [] OTHER -> 0]

\* index at the sprites of the ROM, at the glyph "0" and two bytes from
\* the end of memory
DrawIndex == {START_ADDRESS, FONTSET_START_ADDRESS, MEMORY_SIZE - 2}

\* (Vx, Vy) at the origin or next to an edge of the screen (mod 64, mod 32)
DrawXs == {0, 60, 255}
DrawYs == {0, 31}

DrawMachine(vx, vy, idx) ==
    [load_rom(new, RomSprites).m EXCEPT
        !.registers = [r \in 0 .. NUM_REGISTERS - 1 |->
                          CASE r = 0 -> vx [] r = 1 -> vy [] OTHER -> 0],
        !.index = idx]

\* D01n for 0, 1, 2 and 15 rows, and a draw with VF as each coordinate
DrawOps == {53264 + n : n \in {0, 1, 2, 15}} \cup {57106, 53490}

InitDraw ==
    \E vx \in DrawXs, vy \in DrawYs, idx \in DrawIndex :
        Fresh(DrawMachine(vx, vy, idx))

Draw ==
    /\ \E op \in DrawOps :
          last.run < MaxDraws /\ Execute(op)
    /\ UNCHANGED driver

SpecDraw == InitDraw /\ [][Draw]_vars

IsDRW(op) == nibbles(op)[1] = 13

ExecutedDRW == Executed /\ IsDRW(last.op)

\* the framebuffer indices of the set bits of the sprite that the word op
\* draws on machine m
SpritePixels(m, op) ==
    LET n == nibbles(op)
        vx == m.registers[n[2]]
        vy == m.registers[n[3]]
    IN  {((vx + column) % 64) + 64 * ((vy + row) % 32) :
            <<row, column>> \in
                {rc \in (0 .. n[4] - 1) \X (0 .. 7) :
                    Bit(m.memory[m.index + rc[1]], 7 - rc[2]) = 1}}

InMemory(m, op) == m.index + nibbles(op)[4] <= 4096

\* C8: 0xDxyn with index + n <= 4096 toggles exactly the pixels at
\* ((Vx + column) mod 64, (Vy + row) mod 32) of the set bits of the n sprite
\* rows at memory[index..], most significant bit first, changes no other
\* pixel, and sets VF to 1 if one of those pixels was set before, else to 0.
C8_Draw ==
    ExecutedDRW /\ InMemory(pre, last.op) =>
        LET toggled == SpritePixels(pre, last.op)
        IN  /\ last.ok
            /\ \A p \in 0 .. 2047 :
                  chip8.video[p] = IF p \in toggled THEN ~pre.video[p]
                                                    ELSE pre.video[p]
            /\ V[15] = IF \E p \in toggled : pre.video[p] THEN 1 ELSE 0

\* the row 0xFF drawn at (60, 0) over a framebuffer in which some of its
\* pixels are lit: columns 60..63 and 0..3 of row 0 are toggled, VF = 1
C8_Witness ==
    /\ ExecutedDRW /\ last.ok /\ nibbles(last.op)[4] >= 1
    /\ pre.index = START_ADDRESS
    /\ Vpre[X] = 60 /\ Vpre[Y] = 0
    /\ pre.video[0] /\ ~chip8.video[0] /\ ~chip8.video[63]
    /\ V[15] = 1

\* a step from the state after one DRW to the state after the same DRW
\* executed again, with Vx and Vy the same at both draws (DRW writes neither
\* index nor memory, so the sprite is the same)
DrawnTwice ==
    /\ ExecutedDRW /\ last.ok
    /\ last'.kind = "execute" /\ last'.op = last.op /\ last'.ok
    /\ V[X] = Vpre[X] /\ V[Y] = Vpre[Y]

\* C9: the same 0xDxyn executed twice in a row leaves the framebuffer as it
\* was before the first draw, and the second draw sets VF = 1 whenever the
\* sprite has a set bit.
C9_DrawTwice ==
    [][DrawnTwice =>
          /\ chip8'.video = pre.video
          /\ SpritePixels(pre, last.op) # {} => chip8'.registers[15] = 1]_vars

\* C9 as amended: the framebuffer is as it was before the first draw, and
\* the second draw sets VF = 1 exactly when a pixel of the sprite was unset
\* before the first draw.
C9_DrawTwiceAmended ==
    [][DrawnTwice =>
          /\ chip8'.video = pre.video
          /\ chip8'.registers[15] =
                IF \E p \in SpritePixels(pre, last.op) : ~pre.video[p]
                THEN 1 ELSE 0]_vars

\* the second of two identical draws in a row of a sprite with set bits has
\* cleared them again and reported the collision
C9_Witness ==
    /\ ExecutedDRW /\ last.ok /\ last.again
    /\ X # 15 /\ Y # 15
    /\ SpritePixels(pre, last.op) # {}
    /\ \A p \in SpritePixels(pre, last.op) : pre.video[p] /\ ~chip8.video[p]
    /\ V[15] = 1

----------------------------------------------------------------------------
(* SpecLoad: calls of load_rom in any number and order, with an empty      *)
(* file, files of 2 and of 16 bytes, files of every length within         *)
(* LoadSlack of the capacity 4096 - 0x200, and files that cannot be read.  *)

LoadSlack == 1

CAPACITY == MEMORY_SIZE - START_ADDRESS

LoadLengths == {0, 2, 16} \cup (CAPACITY - LoadSlack .. CAPACITY + LoadSlack)

\* the file of length len: non-zero bytes that differ from file to file
RomOfLength(len) == [i \in 1 .. len |-> ((7 * len + i) % (U8 - 1)) + 1]

LoadFiles == {RomOfLength(len) : len \in LoadLengths}

LoadFile ==
    /\ \E rom_data \in LoadFiles :
          LoadRom(rom_data)
    /\ UNCHANGED driver

NextLoad == LoadFile \/ LoadRomUnreadable

SpecLoad == Init /\ [][NextLoad]_vars

\* the last call was load_rom with a file of len bytes
Loaded(len) == last.kind = "load_rom" /\ last.arg = len

\* C10: load_rom of a program of length L <= 3584 returns Ok, sets
\* memory[0x200 + i] to byte i of the program for every i < L, and leaves
\* every other memory byte and every other field unchanged.
C10_Load ==
    last.kind = "load_rom" /\ last.arg >= 0 /\ last.arg <= 3584 =>
        LET rom_data == RomOfLength(last.arg)
        IN  /\ last.ok
            /\ \A a \in 0 .. 4095 :
                  chip8.memory[a] =
                      IF a >= 512 /\ a < 512 + last.arg
                      THEN rom_data[a - 512 + 1]
                      ELSE pre.memory[a]
            /\ [chip8 EXCEPT !.memory = pre.memory] = pre

\* a program of 2 bytes loaded over one of 3584 bytes: its bytes are at
\* 0x200 and 0x201, and the bytes of the longer program remain behind them
C10_Witness ==
    /\ Loaded(2) /\ last.ok
    /\ chip8.memory[512] = RomOfLength(2)[1]
    /\ chip8.memory[513] = RomOfLength(2)[2]
    /\ chip8.memory[514] = RomOfLength(CAPACITY)[3]
    /\ chip8.memory[4095] = RomOfLength(CAPACITY)[CAPACITY]
    /\ pre.memory[512] = RomOfLength(CAPACITY)[1]

\* C11: load_rom of a program of length L > 3584 returns the error and
\* leaves every field of the machine (memory, registers, pc, stack, timers,
\* keypad, framebuffer) as it was before the call.
C11_LoadTooLong ==
    last.kind = "load_rom" /\ last.arg > 3584 =>
        ~last.ok /\ ~panicked /\ chip8 = pre

\* a program of 3585 bytes was refused after one of 3584 bytes had been
\* loaded: the bytes of the earlier program are still in memory
C11_Witness ==
    /\ Loaded(CAPACITY + 1) /\ ~last.ok
    /\ loaded
    /\ chip8.memory[512] = RomOfLength(CAPACITY)[1]
    /\ chip8.memory[4095] = RomOfLength(CAPACITY)[CAPACITY]

----------------------------------------------------------------------------
(* Claims about the timers, checked under SpecKeys *)

Max(a, b) == IF a >= b THEN a ELSE b

\* the value a timer holds when v was stored and h.ticks calls of
\* tick_timers were counted since (MaxTicks stands for MaxTicks or more)
TimerAsStored(timer, h) ==
    IF h.ticks < MaxTicks THEN timer = Max(h.v - h.ticks, 0)
    ELSE timer <= Max(h.v - MaxTicks, 0)

\* C12: tick_timers lowers each of the two timers by one unless it is 0,
\* each independently of the other, and changes no other field; a timer into
\* which 0xFx15 / 0xFx18 stored v holds max(v - k, 0) after k calls of
\* tick_timers without another store, whatever instructions ran in between:
\* it is 0 after exactly v calls and stays 0.
C12_Timers ==
    /\ last.kind = "tick_timers" =>
          chip8 = [pre EXCEPT !.dtimer = Max(pre.dtimer - 1, 0),
                              !.stimer = Max(pre.stimer - 1, 0)]
    /\ since.dt.v >= 0 => TimerAsStored(chip8.dtimer, since.dt)
    /\ since.st.v >= 0 => TimerAsStored(chip8.stimer, since.st)

\* two calls of tick_timers after LD DT stored 2 and one after LD ST stored
\* 2: the delay timer has reached 0 while the sound timer is at 1, and the
\* program is in its key wait
C12_Witness ==
    /\ last.kind = "tick_timers"
    /\ since.dt = [v |-> 2, ticks |-> 2] /\ pre.dtimer = 1 /\ chip8.dtimer = 0
    /\ since.st = [v |-> 2, ticks |-> 1] /\ pre.stimer = 2 /\ chip8.stimer = 1
    /\ chip8.pc = 518

\* a further call of tick_timers leaves a delay timer of 0 at 0
C12_WitnessFloor ==
    /\ last.kind = "tick_timers"
    /\ since.dt.v = 2 /\ since.dt.ticks > 2
    /\ pre.dtimer = 0 /\ chip8.dtimer = 0

----------------------------------------------------------------------------
(* SpecRound: up to MaxRound calls of execute in a row with LD [I], Vx,    *)
(* LD Vx, [I] and LD Vx, byte words, on machines whose index is inside     *)
(* memory or within EdgeSpan bytes of its end.                             *)

MaxRound == 3

RoundIndex == {768} \cup (MEMORY_SIZE - EdgeSpan .. MEMORY_SIZE - 1)

\* F155, FF55, F165, FF65, LD V0, 7 and LD V1, 9
RoundOps == {\hF155, \hFF55, \hF165, \hFF65, \h6007, \h6109}

InitRound == \E idx \in RoundIndex : Fresh(StoreMachine(idx, new))

Round ==
    /\ \E op \in RoundOps :
          last.run < MaxRound /\ Execute(op)
    /\ UNCHANGED driver

SpecRound == InitRound /\ [][Round]_vars

\* C13: 0xFx55 with index + x < 4096 returns normally, sets
\* memory[index + r] to Vr for every r in 0..x and changes nothing else
\* (index included); a 0xFx65 with the x and index of the last 0xFx55 leaves
\* V0..Vx as they were before that store, whatever was written to the
\* registers in between.
C13_StoreLoad ==
    /\ Executed /\ IsLD_I_Vx(last.op) /\ pre.index + X < 4096 =>
          /\ last.ok
          /\ chip8 = [pre EXCEPT !.memory =
                         [a \in 0 .. 4095 |->
                             IF a >= pre.index /\ a <= pre.index + X
                             THEN pre.registers[a - pre.index]
                             ELSE pre.memory[a]]]
    /\ Executed /\ IsLD_Vx_I(last.op) /\ pre.index + X < 4096
          /\ saved.x = X /\ saved.index = pre.index =>
          /\ last.ok
          /\ \A r \in 0 .. X : V[r] = saved.registers[r]

\* F155 at index 4094 wrote the last two bytes of memory, LD V0, 7
\* overwrote V0, and F165 has brought V0 back
C13_Witness ==
    /\ Executed /\ last.op = \hF165 /\ last.ok
    /\ saved.x = 1 /\ saved.index = MEMORY_SIZE - 2 /\ chip8.index = MEMORY_SIZE - 2
    /\ Vpre[0] = 7 /\ V[0] = 100 /\ V[1] = 101
    /\ chip8.memory[MEMORY_SIZE - 1] = 101

----------------------------------------------------------------------------
(* Claims about the machine as created, checked under Spec *)

Created == last.kind = "new"

\* every field but program_counter is zero, but for the font table at
\* memory[0x50..0xA0)
ZeroedButPc ==
    /\ \A r \in 0 .. 15 : chip8.registers[r] = 0
    /\ chip8.index = 0
    /\ \A i \in 0 .. 15 : chip8.stack[i] = 0
    /\ chip8.sp = 0
    /\ chip8.dtimer = 0 /\ chip8.stimer = 0 /\ chip8.opcode = 0
    /\ \A k \in 0 .. 15 : ~chip8.keypad[k]
    /\ \A p \in 0 .. 2047 : ~chip8.video[p]
    /\ \A a \in 0 .. 4095 :
          chip8.memory[a] = IF a >= 80 /\ a < 160 THEN FONTSET[a - 80 + 1] ELSE 0

\* C14: a newly created machine has every field zero (registers, index,
\* program_counter, stack, stack pointer, both timers; keypad and framebuffer
\* all false; memory 0 everywhere) except memory[0x50..0xA0), which holds the
\* font table.
C14_NewZeroed == Created => ZeroedButPc /\ chip8.pc = 0

\* C14 as amended: the same, except that program_counter is 0x200.
C14_NewZeroedButPc == Created => ZeroedButPc /\ chip8.pc = 512

\* the machine as created: the glyph "0" starts at 0x50, the last glyph byte
\* is at 0x9F, and the bytes around the table are 0
C14_Witness ==
    /\ Created /\ ~loaded
    /\ chip8.memory[79] = 0 /\ chip8.memory[80] = 240
    /\ chip8.memory[159] = 128 /\ chip8.memory[160] = 0
    /\ chip8.pc = 512

----------------------------------------------------------------------------
(* SpecStack: the program RomNest run by tick while the driver's calls of  *)
(* keypress (for one key) and of tick_timers arrive in any order.          *)

LoadNest == ~loaded /\ LoadRom(RomNest) /\ UNCHANGED driver

KeyOne ==
    /\ \E pressed \in BOOLEAN :
          loaded /\ Keypress(3, pressed)
    /\ UNCHANGED driver

NextStack == LoadNest \/ Cycle \/ KeyOne \/ Timer

SpecStack == Init /\ [][NextStack]_vars

\* C15: in every state reached from creation by a program load and cycles,
\* timer ticks and key events that returned normally, the stack pointer is
\* at least 0 and at most 15.
C15_StackPointer == ~panicked => chip8.sp >= 0 /\ chip8.sp <= 15

\* C15 as amended: the stack pointer is at least 0 and at most 16.
C15_StackPointerUpTo16 == ~panicked => chip8.sp >= 0 /\ chip8.sp <= 16

\* the 16th nested CALL has returned normally: the stack is full and the
\* stack pointer is 16
C15_Witness ==
    /\ TickedCALL /\ last.ok /\ ~panicked
    /\ pre.sp = 15 /\ chip8.sp = 16
    /\ chip8.stack[15] = 528

----------------------------------------------------------------------------
(* Claims about program_counter, checked under Spec *)

\* C16: in every state reached from creation by a program load and cycles
\* that returned normally, program_counter addresses two bytes inside
\* memory: program_counter + 1 < 4096.
C16_PcInMemory == loaded /\ ~panicked => chip8.pc + 1 < 4096

\* what the code keeps instead: program_counter is at most 0xFFF + 0xFF (the
\* largest target of JP V0, addr), and a cycle begun with
\* program_counter + 1 >= 4096 panics in fetch and changes nothing
C16_FetchPanics ==
    /\ chip8.pc <= 4095 + 255
    /\ last.kind = "tick" /\ pre.pc + 1 >= 4096 =>
          ~last.ok /\ last.arg = 0 /\ chip8 = pre

----------------------------------------------------------------------------
(* SpecGlyph: a program that writes the digits of a register at the        *)
(* address LD F gives it, run by tick while the driver's calls of keypress *)
(* and of tick_timers arrive in any order.                                 *)

\* 0x200  LD V0, 7
\* 0x202  LD F, V0         index = 0x50 + 5 * 7, the glyph "7"
\* 0x204  LD B, V0         the digits 0, 0, 7 at index
\* 0x206  JP 0x206
RomGlyph == Assemble(<<\h6007, \hF029, \hF033, \h1206>>)

LoadGlyph == ~loaded /\ LoadRom(RomGlyph) /\ UNCHANGED driver

NextGlyph == LoadGlyph \/ Cycle \/ KeyOne \/ Timer

SpecGlyph == Init /\ [][NextGlyph]_vars

\* C17: in every state reached from creation by program loads at 0x200 and
\* any sequence of executed instructions, timer ticks and key events,
\* memory[0x50..0xA0) holds the font table.
C17_GlyphsKept ==
    \A a \in 80 .. 159 : chip8.memory[a] = FONTSET[a - 80 + 1]

\* what the code keeps: load_rom, tick_timers and keypress leave the font
\* table as it is
C17_GlyphsKeptByDriver ==
    last.kind \in {"load_rom", "tick_timers", "keypress"} =>
        \A a \in 80 .. 159 : chip8.memory[a] = pre.memory[a]

----------------------------------------------------------------------------
(* Claims about the flag register, checked under SpecAlu *)

\* the flag of the word 0x8xyN, from the registers before the instruction
FlagOf(n) ==
    CASE n = 4  -> IF Vpre[X] + Vpre[Y] > 255 THEN 1 ELSE 0
      [] n = 5  -> IF Vpre[X] >= Vpre[Y] THEN 1 ELSE 0
      [] n = 6  -> Vpre[X] % 2
      [] n = 7  -> IF Vpre[Y] > Vpre[X] THEN 1 ELSE 0
      [] n = 14 -> Vpre[X] \div 128

\* C18: after 0x8xy4, 0x8xy5, 0x8xy6, 0x8xy7 and 0x8xyE, for every x and y
\* (0xF included), VF is 0 or 1 and is the flag of the instruction computed
\* from the registers before it; 0x8xy6 and 0x8xyE change no register but
\* Vx and VF, and for x # 0xF leave Vx shifted by one bit whatever Vy holds.
C18_Flags ==
    \A n \in {4, 5, 6, 7, 14} :
        Executed8(n) =>
            /\ last.ok
            /\ V[15] \in {0, 1}
            /\ V[15] = FlagOf(n)
            /\ n \in {6, 14} => OthersKept({X, 15})
            /\ n = 6 /\ X # 15 => V[X] = Vpre[X] \div 2
            /\ n = 14 /\ X # 15 => V[X] = (2 * Vpre[X]) % 256

\* what the code keeps: the same for 0x8xy4 and 0x8xy5, and for the shifts
\* with x # 0xF
C18_FlagsButShiftF ==
    \A n \in {4, 5, 6, 14} :
        Executed8(n) /\ (n \in {6, 14} => X # 15) =>
            /\ last.ok
            /\ V[15] = FlagOf(n)
            /\ n \in {6, 14} => OthersKept({X, 15})
            /\ n = 6 => V[X] = Vpre[X] \div 2
            /\ n = 14 => V[X] = (2 * Vpre[X]) % 256

\* the shifts with x = 0xF: the flag is shifted after it was written
C18_ShiftF ==
    /\ Executed8(6) /\ X = 15 => V[15] = 0
    /\ Executed8(14) /\ X = 15 => V[15] = 2 * (Vpre[15] \div 128)

----------------------------------------------------------------------------
(* SpecWait: a program that sets the delay timer and waits for a key, run  *)
(* by tick while the driver's calls of keypress (for one key) and of       *)
(* tick_timers arrive in any order; the game loop runs cycles in every     *)
(* frame, so a cycle that can change the state is eventually run.          *)

\* 0x200  LD V0, 2
\* 0x202  LD DT, V0
\* 0x204  LD V1, K         wait for a key
\* 0x206  JP 0x204
RomWait == Assemble(<<\h6002, \hF015, \hF10A, \h1204>>)

LoadWait == ~loaded /\ LoadRom(RomWait) /\ UNCHANGED driver

NextWait == LoadWait \/ Cycle \/ KeyOne \/ Timer

SpecWait == Init /\ [][NextWait]_vars /\ WF_vars(Cycle)

\* program_counter addresses a 0xFx0A instruction
AtWait == ~panicked /\ fetch(chip8).ok /\ IsLD_K(fetch(chip8).op)

\* C19: while program_counter addresses 0xFx0A and no key is pressed, every
\* step (cycle, timer tick, key event) leaves the machine at that instruction
\* with the same program_counter and registers; a timer tick and a key
\* event during the wait have their effect on the timers and the keypad; a
\* cycle run with a key pressed moves program_counter past the instruction;
\* and a key that is pressed and held until a cycle runs leads to a state
\* past the instruction.
C19_Wait ==
    /\ [][AtWait /\ Down(chip8) = {} =>
             /\ AtWait'
             /\ chip8'.pc = chip8.pc
             /\ chip8'.registers = chip8.registers]_vars
    /\ [][AtWait /\ last'.kind = "tick_timers" =>
             /\ chip8'.dtimer = Max(chip8.dtimer - 1, 0)
             /\ chip8'.stimer = Max(chip8.stimer - 1, 0)]_vars
    /\ [][AtWait /\ last'.kind = "keypress" =>
             chip8'.keypad[last'.arg] = (last'.op = 1)]_vars
    /\ [][AtWait /\ Down(chip8) # {} /\ last'.kind = "tick" =>
             ~AtWait' /\ chip8'.pc = chip8.pc + 2]_vars
    /\ (AtWait /\ Down(chip8) # {}) ~> (~AtWait \/ Down(chip8) = {})

\* the delay timer has run down to 0, then key 3 was pressed and the next
\* cycle has completed the instruction
C19_Witness ==
    /\ TickedLD_K /\ last.ok
    /\ since.dt.ticks >= 2 /\ pre.dtimer = 0
    /\ Down(pre) = {3}
    /\ chip8.registers[1] = 3 /\ chip8.pc = pre.pc + 2

----------------------------------------------------------------------------
(* SpecRun: Chip8::run (lib.rs 79-143) with the program RomWait.  A frame  *)
(* of the game loop polls the event pump until it is empty, calls tick     *)
(* ticks_per_frame times and then tick_timers; the window system adds      *)
(* events to the pump at any time.  draw_screen only reads the machine.    *)

\* the values of the argument ticks_per_frame
MaxTicksPerFrame == 2

\* the events that can wait in the event pump
MaxEvents == 1

\* KeyDown and KeyUp of the key `3` (process_input gives Some(3)) and Quit;
\* the events the loop ignores (`_ => ()`, process_input giving None) change
\* nothing and are left out
Events == {"down", "up", "quit"}

InitRun ==
    /\ chip8 = new
    /\ panicked = FALSE
    /\ checked \in BOOLEAN
    /\ loaded = FALSE
    /\ pre = new
    /\ last = NoCall
    /\ calls = <<>>
    /\ since = NoStore
    /\ saved = NoSave
    /\ \E t \in 1 .. MaxTicksPerFrame :
          driver = [phase |-> "load", ticked |-> 0, ticks_per_frame |-> t,
                    events |-> <<>>]

\* the window system queues an event
Arrive ==
    /\ ~panicked /\ driver.phase \in {"poll", "ticks"}
    /\ Len(driver.events) < MaxEvents
    /\ \E evt \in Events : driver' = [driver EXCEPT !.events = Append(@, evt)]
    /\ UNCHANGED machine

\* self.load_rom(rom).unwrap(): RomWait fits, so Ok is returned
RunLoad ==
    /\ driver.phase = "load"
    /\ LoadRom(RomWait)
    /\ driver' = [driver EXCEPT !.phase = "poll"]

\* one turn of `for evt in event_pump.poll_iter()` with a key event
RunPollKey ==
    /\ driver.phase = "poll" /\ driver.events # <<>>
    /\ Head(driver.events) \in {"down", "up"}
    /\ Keypress(3, Head(driver.events) = "down")
    /\ driver' = [driver EXCEPT !.events = Tail(@)]

\* Event::Quit or KeyDown of Escape: break 'gameloop
RunPollQuit ==
    /\ ~panicked
    /\ driver.phase = "poll" /\ driver.events # <<>>
    /\ Head(driver.events) = "quit"
    /\ driver' = [driver EXCEPT !.phase = "quit", !.events = Tail(@)]
    /\ UNCHANGED machine

\* poll_iter has no more events: the loop over the events ends
RunPollEnd ==
    /\ ~panicked
    /\ driver.phase = "poll" /\ driver.events = <<>>
    /\ driver' = [driver EXCEPT !.phase = "ticks", !.ticked = 0]
    /\ UNCHANGED machine

\* one turn of `for _ in 0..ticks_per_frame { self.tick(); }`
RunTick ==
    /\ driver.phase = "ticks" /\ driver.ticked < driver.ticks_per_frame
    /\ Tick
    /\ driver' = [driver EXCEPT !.ticked = @ + 1]

\* self.tick_timers(), draw_screen and the sleep to the end of the frame
RunTimers ==
    /\ driver.phase = "ticks" /\ driver.ticked = driver.ticks_per_frame
    /\ TickTimers
    /\ driver' = [driver EXCEPT !.phase = "poll"]

NextRun ==
    \/ Arrive \/ RunLoad \/ RunPollKey \/ RunPollQuit
    \/ RunPollEnd \/ RunTick \/ RunTimers

SpecRun == InitRun /\ [][NextRun]_vars

\* a step of the game loop that calls tick (a fetch takes place)
FetchStep == driver'.ticked = driver.ticked + 1

\* a step of the game loop that calls tick_timers
TimerStep == driver.phase = "ticks" /\ driver'.phase = "poll"

\* the key transitions waiting in the event pump
Transitions(events) == SelectSeq(events, LAMBDA evt : evt \in {"down", "up"})

\* C20: in run, no key transition is waiting to be applied when a fetch
\* takes place, at any of the ticks_per_frame fetches of a frame; a frame is
\* ticks_per_frame cycles followed by one timer tick.
C20_Frames ==
    /\ [][FetchStep => Transitions(driver.events) = <<>>]_vars
    /\ [][FetchStep => driver.ticked < driver.ticks_per_frame]_vars
    /\ [][TimerStep =>
             /\ driver.ticked = driver.ticks_per_frame
             /\ last'.kind = "tick_timers"]_vars
    /\ [][driver.phase = "ticks" /\ driver' # driver => FetchStep \/ TimerStep
             \/ driver'.events # driver.events]_vars

\* what the code keeps: a frame is ticks_per_frame cycles followed by one
\* timer tick, and the event pump is empty when the first fetch of a frame
\* follows the poll loop without an arrival in between
C20_FrameShape ==
    /\ [][FetchStep => driver.ticked < driver.ticks_per_frame]_vars
    /\ [][TimerStep =>
             /\ driver.ticked = driver.ticks_per_frame
             /\ last'.kind = "tick_timers"]_vars
    /\ [][driver.phase = "poll" /\ driver'.phase = "ticks" =>
             driver.events = <<>> /\ driver'.ticked = 0]_vars

====
